---- MODULE Spec2Model ----
(***************************************************************************)
(* A model of app/main.py of the solar dashboard: region discovery         *)
(* (list_available_countries), region loading (load_country_df), the       *)
(* combination of regions (combine_countries), the sampling step of        *)
(* fig_boxplot and the grouped ranking of top_regions_table.               *)
(*                                                                         *)
(* Strings that the code inspects character by character (file names and   *)
(* region keys) are sequences of code points, so that Python's string      *)
(* order, str.replace and the glob pattern are computed, not assumed.      *)
(***************************************************************************)
EXTENDS Integers, Sequences, FiniteSets, TLC

VARIABLES
    files,        \* the storage directory: file name -> file content
    dirState,     \* "ok" | "absent" | "error": what scanning DATA_DIR meets
    country_keys, \* combine_countries: the argument
    pos,          \* combine_countries: keys attempted so far (loop position)
    frames,       \* combine_countries: the list of loaded tables
    warnings,     \* st.warning calls made by combine_countries, in order
    pc,           \* position of the running operation
    result,       \* what the operation returned or raised
    available,    \* list_available_countries: the returned list
    errors,       \* st.error calls made, in order
    df_all,       \* the unified table handed to fig_boxplot / top_regions_table
    sample_n,     \* the sidebar's sample size
    rng,          \* generator state -> the row permutation it draws for df_all
    np_global,    \* the state of numpy's global generator
    plotted,      \* fig_boxplot: the df_plot of each call so far
    top_n,        \* top_regions_table: the argument
    group_col     \* top_regions_table: the grouping column chosen

storeVars == <<files, dirState>>
combineVars == <<country_keys, pos, frames, warnings>>
viewVars == <<df_all, sample_n, rng, np_global, plotted, top_n, group_col>>

vars == <<files, dirState, country_keys, pos, frames, warnings, pc, result,
          available, errors, df_all, sample_n, rng, np_global, plotted,
          top_n, group_col>>

-----------------------------------------------------------------------------
(* Bounds of the model *)

MaxRows == 2       \* rows per region file
MaxFiles == 2      \* files in the storage directory (catalog scenarios)
MaxPieces == 2     \* pieces a file name is built from (catalog scenarios)
MaxTable == 3      \* rows of the unified table (sampling, top groups)
MaxCalls == 2      \* calls of fig_boxplot in one session (script reruns)

-----------------------------------------------------------------------------
(* Strings as sequences of code points *)

S_clean == <<95, 99, 108, 101, 97, 110>>            \* "_clean"
S_csv == <<46, 99, 115, 118>>                       \* ".csv"
S_txt == <<46, 116, 120, 116>>                      \* ".txt"
S_a == <<97>>                                       \* "a"
S_b == <<98>>                                       \* "b"
S_2 == <<50>>                                       \* "2"
S_dot == <<46>>                                     \* "."

\* s[from..] starts with t
StartsAt(s, from, t) ==
    /\ from + Len(t) - 1 <= Len(s)
    /\ \A j \in 1..Len(t) : s[from + j - 1] = t[j]

EndsWith(s, t) == Len(s) >= Len(t) /\ StartsAt(s, Len(s) - Len(t) + 1, t)

\* Python's str < str: code point by code point, a proper prefix is smaller
StrLess(s, t) ==
    \E n \in 0..Len(s) :
        /\ n <= Len(t)
        /\ \A j \in 1..n : s[j] = t[j]
        /\ \/ n = Len(s) /\ n < Len(t)
           \/ n < Len(s) /\ n < Len(t) /\ s[n + 1] < t[n + 1]

StrLeq(s, t) == s = t \/ StrLess(s, t)

\* str.replace(old, ''): every non-overlapping occurrence, left to right
RECURSIVE ReplaceFrom(_, _, _)
ReplaceFrom(s, from, old) ==
    IF from > Len(s) THEN <<>>
    ELSE IF StartsAt(s, from, old) THEN ReplaceFrom(s, from + Len(old), old)
    ELSE <<s[from]>> \o ReplaceFrom(s, from + 1, old)

\* PurePath.stem: the name without its last suffix
LastDot(name) ==
    IF \E j \in 1..Len(name) : name[j] = S_dot[1]
    THEN CHOOSE j \in 1..Len(name) :
            name[j] = S_dot[1] /\ \A m \in (j + 1)..Len(name) : name[m] # S_dot[1]
    ELSE 0

Stem(name) ==
    LET d == LastDot(name)
    IN IF d > 1 /\ d < Len(name) THEN SubSeq(name, 1, d - 1) ELSE name

\* Path.glob("*_clean.csv") applied to one directory entry
GlobMatches(name) == EndsWith(name, S_clean \o S_csv)

\* DATA_DIR / f"{country_key}_clean.csv" (the file name under DATA_DIR)
PathOf(country_key) == country_key \o S_clean \o S_csv

\* Path.exists()
Exists(p) == dirState = "ok" /\ p \in DOMAIN files

-----------------------------------------------------------------------------
(* Region files and tables *)

\* a cell of a string column: Null (pandas NaN) or Some(s), s a string
Null == <<>>
Some(s) == <<s>>

S_B == <<66>>                                       \* "B"

Keys == {S_a, S_b, S_a \o S_2}
Labels == {Null, Some(S_B)}   \* cells a file's own 'country' column holds

\* the sequences of length 0..n over S
SeqsUpTo(S, n) == UNION {[1..m -> S] : m \in 0..n}

\* the content of a file pandas parses: one entry per data row, holding the
\* cell of the row's 'country' column (hasCountry: the header has the column;
\* without it the entries are Null)
CsvFile(hasCountry, labels) ==
    [kind |-> "csv", hasCountry |-> hasCountry, country |-> labels]

\* the content of a file pandas.read_csv raises on (no Timestamp column,
\* malformed structure)
CorruptFile == [kind |-> "corrupt", hasCountry |-> FALSE, country |-> <<>>]

Contents ==
    {CorruptFile}
    \cup {CsvFile(FALSE, l) : l \in SeqsUpTo({Null}, MaxRows)}
    \cup {CsvFile(TRUE, l) : l \in SeqsUpTo(Labels, MaxRows)}

\* pd.read_csv(p, parse_dates=['Timestamp']) on a file that parses: row j
\* carries the data of line j of file p
ReadCsv(p) ==
    [j \in 1..Len(files[p].country) |->
        [src |-> p, line |-> j, country |-> files[p].country[j]]]

NoRows == <<>>

\* faulty variant: the 'country' column is overwritten even when the file has it
load_country_df_overwrite(country_key) ==
    LET p == PathOf(country_key)
    IN  IF ~Exists(p)
        THEN [exc |-> "FileNotFoundError", rows |-> NoRows]
        ELSE IF files[p].kind = "corrupt"
        THEN [exc |-> "ParseError", rows |-> NoRows]
        ELSE [exc |-> "none",
              rows |-> [j \in 1..Len(ReadCsv(p)) |->
                          [ReadCsv(p)[j] EXCEPT !.country = Some(country_key)]]]

load_country_df(country_key) ==
    LET p == PathOf(country_key)
    IN  IF ~Exists(p)
        THEN [exc |-> "FileNotFoundError", rows |-> NoRows]
        ELSE IF files[p].kind = "corrupt"
        THEN [exc |-> "ParseError", rows |-> NoRows]
        ELSE [exc |-> "none",
              rows |-> IF ~files[p].hasCountry
                       THEN [j \in 1..Len(ReadCsv(p)) |->
                               [ReadCsv(p)[j] EXCEPT !.country = Some(country_key)]]
                       ELSE ReadCsv(p)]

\* pd.concat(frames, ignore_index=True): the rows of the frames, in order;
\* a row's index is its position
\* faulty variant: each frame is put in front of the ones before it
RECURSIVE ConcatPrepend(_)
ConcatPrepend(fs) ==
    IF fs = <<>> THEN <<>> ELSE ConcatPrepend(Tail(fs)) \o Head(fs)

RECURSIVE Concat(_)
Concat(fs) == IF fs = <<>> THEN <<>> ELSE Head(fs) \o Concat(Tail(fs))

-----------------------------------------------------------------------------
(* combine_countries, one loop iteration per step *)

NoResult == [exc |-> "pending", rows |-> NoRows]

\* faulty variant: except Exception
CaughtAny(exc) == exc # "none"

\* except FileNotFoundError (the only handler of the loop)
Caught(exc) == exc = "FileNotFoundError"

CombineIter ==
    /\ pc = "combine"
    /\ pos < Len(country_keys)
    /\ LET c == country_keys[pos + 1]
           r == load_country_df(c)
       IN  CASE r.exc = "none" ->
                  /\ frames' = Append(frames, r.rows)
                  /\ pos' = pos + 1
                  /\ UNCHANGED <<warnings, pc, result>>
             [] r.exc # "none" /\ Caught(r.exc) ->
                  /\ warnings' = Append(warnings, c)
                  /\ pos' = pos + 1
                  /\ UNCHANGED <<frames, pc, result>>
             [] OTHER ->
                  /\ pc' = "raised"
                  /\ result' = [exc |-> r.exc, rows |-> NoRows]
                  /\ UNCHANGED <<frames, warnings, pos>>
    /\ UNCHANGED <<storeVars, country_keys, available, errors, viewVars>>

CombineReturn ==
    /\ pc = "combine"
    /\ pos = Len(country_keys)
    /\ IF frames = <<>>
       THEN /\ pc' = "raised"
            /\ result' = [exc |-> "ValueError", rows |-> NoRows]
       ELSE /\ pc' = "returned"
            /\ result' = [exc |-> "none", rows |-> Concat(frames)]
    /\ UNCHANGED <<storeVars, combineVars, available, errors, viewVars>>

\* the call site: try: df_all = load_and_prepare(...) except Exception:
\* st.error, st.stop (st.cache_data stores nothing when the call raises)
CallSiteExcept ==
    /\ pc = "raised"
    /\ errors' = Append(errors, result.exc)
    /\ pc' = "stopped"
    /\ UNCHANGED <<storeVars, combineVars, result, available, viewVars>>

\* nothing is displayed yet
EmptyTable == [columns |-> {}, rows |-> <<>>]

NoView ==
    /\ df_all = EmptyTable
    /\ sample_n = 0
    /\ rng = <<>>
    /\ np_global = "global0"
    /\ plotted = <<>>
    /\ top_n = 0
    /\ group_col = "none"

\* the sequences over S without repetition
InjSeqs(S) ==
    {s \in SeqsUpTo(S, Cardinality(S)) :
        \A x, y \in 1..Len(s) : s[x] = s[y] => x = y}

Storage(names) == UNION {[D -> Contents] : D \in SUBSET names}

InitCombine ==
    /\ dirState = "ok"
    /\ files \in Storage({PathOf(k) : k \in Keys})
    /\ country_keys \in InjSeqs(Keys)
    /\ pos = 0
    /\ frames = <<>>
    /\ warnings = <<>>
    /\ pc = "combine"
    /\ result = NoResult
    /\ available = <<>>
    /\ errors = <<>>
    /\ NoView

NextCombine == CombineIter \/ CombineReturn \/ CallSiteExcept

SpecCombine == InitCombine /\ [][NextCombine]_vars

-----------------------------------------------------------------------------
(* list_available_countries, and a listed key handed to load_country_df *)

\* sorted(paths): the paths of one directory, ordered as their names are
RECURSIVE Sorted(_)
Sorted(S) ==
    IF S = {} THEN <<>>
    ELSE LET m == CHOOSE x \in S : \A y \in S : StrLeq(x, y)
         IN  <<m>> \o Sorted(S \ {m})

\* DATA_DIR.glob("*_clean.csv"): nothing when DATA_DIR is not a directory
Glob == IF dirState = "ok" THEN {n \in DOMAIN files : GlobMatches(n)} ELSE {}

\* f.stem.replace('_clean', '')
KeyOfFile(name) == ReplaceFrom(Stem(name), 1, S_clean)

list_available_countries ==
    IF dirState = "error"
    THEN [exc |-> "OSError", keys |-> <<>>]
    ELSE [exc |-> "none",
          keys |-> [x \in 1..Len(Sorted(Glob)) |-> KeyOfFile(Sorted(Glob)[x])]]

\* the sidebar: available = list_available_countries()
ListAvailableCountries ==
    /\ pc = "catalog"
    /\ available' = list_available_countries.keys
    /\ errors' = IF list_available_countries.exc = "none"
                 THEN errors
                 ELSE Append(errors, list_available_countries.exc)
    /\ pc' = "listed"
    /\ UNCHANGED <<storeVars, combineVars, result, viewVars>>

\* a listed key is selected and loaded (multiselect, then load_country_df)
LoadListed ==
    /\ pc = "listed"
    /\ \E x \in 1..Len(available) :
          /\ country_keys' = <<available[x]>>
          /\ result' = load_country_df(available[x])
    /\ pc' = "loaded"
    /\ UNCHANGED <<storeVars, pos, frames, warnings, available, errors,
                   viewVars>>

\* the pieces the file names of the catalog scenarios are built from
Pieces == {S_a, S_2, S_clean}

RECURSIVE Flatten(_)
Flatten(ps) == IF ps = <<>> THEN <<>> ELSE Head(ps) \o Flatten(Tail(ps))

\* names the pattern matches ("a" or "b", then up to MaxPieces pieces, then
\* "_clean.csv"), and two names it does not match
FileNames ==
    {first \o Flatten(ps) \o S_clean \o S_csv :
        first \in {S_a, S_b}, ps \in SeqsUpTo(Pieces, MaxPieces)}
    \cup {S_a \o S_csv, S_a \o S_clean \o S_txt}

\* the sets of at most n elements of S
SubsetsUpTo(S, n) == {{s[x] : x \in 1..Len(s)} : s \in SeqsUpTo(S, n)}

InitCatalog ==
    /\ dirState \in {"ok", "absent", "error"}
    /\ \E D \in SubsetsUpTo(FileNames, MaxFiles) :
          /\ dirState # "ok" => D = {}
          /\ files = [n \in D |-> CsvFile(FALSE, <<Null>>)]
    /\ country_keys = <<>>
    /\ pos = 0
    /\ frames = <<>>
    /\ warnings = <<>>
    /\ pc = "catalog"
    /\ result = NoResult
    /\ available = <<>>
    /\ errors = <<>>
    /\ NoView

NextCatalog == ListAvailableCountries \/ LoadListed

SpecCatalog == InitCatalog /\ [][NextCatalog]_vars

-----------------------------------------------------------------------------
(* fig_boxplot: the choice of df_plot *)

\* A generator state stands for a position in a pseudo-random stream: "seed1"
\* is the state RandomState(1) starts in, "global0" and "global1" are states
\* of numpy's global generator. rng[g] is the permutation of the rows of
\* df_all that a generator in state g draws (RandomState.permutation).
GenStates == {"seed1", "global0", "global1"}
Advance(g) == IF g = "global0" THEN "global1" ELSE "global0"

RowOrders(n) ==
    {f \in [1..n -> 1..n] : \A x, y \in 1..n : f[x] = f[y] => x = y}

\* faulty variant: random_state=None, the draw comes from the global generator
GeneratorUnseeded(random_state, global) ==
    [state |-> global, after |-> Advance(global)]

\* random_state=1: a new RandomState(1) for each call; the global generator is
\* not touched
Generator(random_state, global) ==
    [state |-> "seed1", after |-> global]

\* DataFrame.sample(n, random_state=...): without replacement, the first n
\* rows of the generator's permutation, each with its index label
DfSample(df, n, g) ==
    IF n < 0
    THEN [exc |-> "ValueError", rows |-> NoRows]
    ELSE [exc |-> "none", rows |-> [x \in 1..n |-> df.rows[rng[g][x]]]]

\* lines 92-95 of fig_boxplot
fig_boxplot(df, n, global) ==
    IF n # 0 /\ Len(df.rows) > n
    THEN [plot |-> DfSample(df, n, Generator(1, global).state),
          after |-> Generator(1, global).after]
    ELSE [plot |-> [exc |-> "none", rows |-> df.rows], after |-> global]

FigBoxplot ==
    /\ pc = "views"
    /\ Len(plotted) < MaxCalls
    /\ plotted' = Append(plotted, fig_boxplot(df_all, sample_n, np_global).plot)
    /\ np_global' = fig_boxplot(df_all, sample_n, np_global).after
    /\ UNCHANGED <<storeVars, combineVars, pc, result, available, errors,
                   df_all, sample_n, rng, top_n, group_col>>

\* a table of n rows as pd.concat(..., ignore_index=True) leaves it: the index
\* labels are 0..n-1
PlainTable(n) ==
    [columns |-> {"country", "GHI"},
     rows |-> [x \in 1..n |->
                 [index |-> x - 1, country |-> Some(S_a), Comments |-> Null,
                  GHI |-> <<1>>]]]

InitSample ==
    /\ dirState = "ok"
    /\ files = <<>>
    /\ country_keys = <<>>
    /\ pos = 0
    /\ frames = <<>>
    /\ warnings = <<>>
    /\ pc = "views"
    /\ result = NoResult
    /\ available = <<>>
    /\ errors = <<>>
    /\ \E n \in 0..MaxTable :
          /\ df_all = PlainTable(n)
          /\ rng \in [GenStates -> RowOrders(n)]
          /\ sample_n \in 0..(n + 1)
    /\ np_global = "global0"
    /\ plotted = <<>>
    /\ top_n = 0
    /\ group_col = "none"

NextSample == FigBoxplot

SpecSample == InitSample /\ [][NextSample]_vars

-----------------------------------------------------------------------------
(* top_regions_table *)

S_x == <<120>>                                      \* "x"
S_y == <<121>>                                      \* "y"

\* a numeric cell: <<>> is NaN, <<v>> the value v
NaN == <<>>

Column(df, col) ==
    [x \in 1..Len(df.rows) |->
        IF col = "Comments" THEN df.rows[x].Comments ELSE df.rows[x].country]

\* faulty variant: the Comments column is chosen whenever the table has it
GroupColumnIfPresent(df) ==
    IF "Comments" \in df.columns THEN "Comments" ELSE "country"

\* 'Comments' if 'Comments' in df.columns and df['Comments'].notna().any()
\* else 'country'
GroupColumn(df) ==
    IF /\ "Comments" \in df.columns
       /\ \E x \in 1..Len(df.rows) : df.rows[x].Comments # Null
    THEN "Comments"
    ELSE "country"

\* df.groupby(col): one group for each non-null cell of the column (rows with
\* a null cell are in no group)
GroupKeys(df, col) ==
    {Column(df, col)[x] : x \in 1..Len(df.rows)} \ {Null}

RECURSIVE SumOf(_, _, _)
SumOf(df, col, key) ==
    IF df.rows = <<>> THEN [n |-> 0, sum |-> 0]
    ELSE LET rest == SumOf([df EXCEPT !.rows = Tail(df.rows)], col, key)
             r == Head(df.rows)
             cell == IF col = "Comments" THEN r.Comments ELSE r.country
         IN  IF cell = key /\ r.GHI # NaN
             THEN [n |-> rest.n + 1, sum |-> rest.sum + r.GHI[1]]
             ELSE rest

\* .agg(['count', 'mean', ...]) of one group: count is the number of non-NaN
\* metric cells, mean is sum / n, NaN when n = 0 (the median and std columns
\* take no part in ordering or selecting the rows and are left out)
Aggregate(df, col, key) ==
    [key |-> key, n |-> SumOf(df, col, key).n, sum |-> SumOf(df, col, key).sum]

MeanIsNaN(a) == a.n = 0

\* mean(a) > mean(b), false when either is NaN
MeanGreater(a, b) ==
    /\ ~MeanIsNaN(a)
    /\ ~MeanIsNaN(b)
    /\ a.sum * b.n > b.sum * a.n

\* faulty variant: ascending=True
MustPrecedeAscending(a, b) ==
    \/ ~MeanIsNaN(a) /\ MeanIsNaN(b)
    \/ MeanGreater(b, a)

\* sort_values('mean', ascending=False): greater means first, NaN means last
MustPrecede(a, b) ==
    \/ ~MeanIsNaN(a) /\ MeanIsNaN(b)
    \/ MeanGreater(a, b)

\* the orders sort_values may leave the aggregate rows in: the sort is not
\* stable, so rows of equal mean come in any order
SortedTables(aggs) ==
    {t \in [1..Cardinality(aggs) -> aggs] :
        /\ \A x, y \in 1..Cardinality(aggs) : t[x] = t[y] => x = y
        /\ \A x, y \in 1..Cardinality(aggs) :
              x < y => ~MustPrecede(t[y], t[x])}

\* DataFrame.head(n), n >= 0
DfHead(t, n) == SubSeq(t, 1, IF n < Len(t) THEN n ELSE Len(t))

top_regions_table(df, n) ==
    {[group_col |-> GroupColumn(df), rows |-> DfHead(t, n)] :
        t \in SortedTables({Aggregate(df, GroupColumn(df), k) :
                               k \in GroupKeys(df, GroupColumn(df))})}

TopRegionsTable ==
    /\ pc = "views"
    /\ \E n \in 0..(MaxTable + 1) :
          /\ top_n' = n
          /\ \E t \in top_regions_table(df_all, n) :
                /\ group_col' = t.group_col
                /\ result' = [exc |-> "none", rows |-> t.rows]
    /\ pc' = "table"
    /\ UNCHANGED <<storeVars, combineVars, available, errors, df_all,
                   sample_n, rng, np_global, plotted>>

\* the rows a unified table may hold (a null 'country' cell comes from a
\* file's own 'country' column)
TableRows(hasComments) ==
    [index : {0},
     country : IF hasComments THEN {Some(S_a), Some(S_b)}
               ELSE {Null, Some(S_a), Some(S_b)},
     Comments : IF hasComments THEN {Null, Some(S_x), Some(S_y)} ELSE {Null},
     GHI : {NaN, <<1>>, <<2>>}]

Reindexed(rows) == [x \in 1..Len(rows) |-> [rows[x] EXCEPT !.index = x - 1]]

InitTop ==
    /\ dirState = "ok"
    /\ files = <<>>
    /\ country_keys = <<>>
    /\ pos = 0
    /\ frames = <<>>
    /\ warnings = <<>>
    /\ pc = "views"
    /\ result = NoResult
    /\ available = <<>>
    /\ errors = <<>>
    /\ \E hasComments \in BOOLEAN :
          \E rows \in SeqsUpTo(TableRows(hasComments), MaxTable) :
             df_all = [columns |-> IF hasComments
                                   THEN {"country", "Comments", "GHI"}
                                   ELSE {"country", "GHI"},
                       rows |-> Reindexed(rows)]
    /\ sample_n = 0
    /\ rng = <<>>
    /\ np_global = "global0"
    /\ plotted = <<>>
    /\ top_n = 0
    /\ group_col = "none"

NextTop == TopRegionsTable

SpecTop == InitTop /\ [][NextTop]_vars

\* every scenario of the dashboard
Init == InitCombine \/ InitCatalog \/ InitSample \/ InitTop

Next == NextCombine \/ NextCatalog \/ NextSample \/ NextTop

Spec == Init /\ [][Next]_vars

-----------------------------------------------------------------------------
(* Properties of combine_countries *)

Requested == {country_keys[x] : x \in 1..Len(country_keys)}
Valid(k) == PathOf(k) \in DOMAIN files /\ files[PathOf(k)].kind = "csv"
Missing(k) == PathOf(k) \notin DOMAIN files
Corrupt(k) == PathOf(k) \in DOMAIN files /\ files[PathOf(k)].kind = "corrupt"
FileRows(k) == IF Valid(k) THEN Len(files[PathOf(k)].country) ELSE 0
Finished == pc \in {"returned", "raised", "stopped"}
Failed == pc \in {"raised", "stopped"}

RECURSIVE SumRows(_)
SumRows(ks) == IF ks = <<>> THEN 0 ELSE FileRows(Head(ks)) + SumRows(Tail(ks))

\* the position in country_keys of the key whose file is p
KeyPos(p) == CHOOSE x \in 1..Len(country_keys) : PathOf(country_keys[x]) = p

\* row r comes before row q in the order "regions as listed, lines as filed"
Before(r, q) ==
    \/ KeyPos(r.src) < KeyPos(q.src)
    \/ KeyPos(r.src) = KeyPos(q.src) /\ r.line < q.line

FromRequested(r) == \E k \in Requested : PathOf(k) = r.src

\* C1: when every requested key's file exists and parses (and at least one key
\* is requested), combine_countries returns a table with as many rows as the
\* regions' tables have together, the rows of a region in the order of its file
\* and the regions in the order they were listed.
C1_CombineCountAndOrder ==
    (Finished /\ country_keys # <<>> /\ \A k \in Requested : Valid(k)) =>
        /\ pc = "returned"
        /\ Len(result.rows) = SumRows(country_keys)
        /\ \A x \in 1..Len(result.rows) :
              /\ FromRequested(result.rows[x])
              /\ result.rows[x].line \in
                    1..Len(files[result.rows[x].src].country)
        /\ \A x, y \in 1..Len(result.rows) :
              x < y => Before(result.rows[x], result.rows[y])

C1_Witness ==
    /\ pc = "returned"
    /\ Len(country_keys) >= 2
    /\ \A k \in Requested : Valid(k) /\ FileRows(k) >= 2

\* C2: with at least one existing, parsing file and at least one missing file
\* among the requested keys, combine_countries does not fail, returns a
\* non-empty table holding only rows of the existing keys, and warns exactly
\* once for each missing key and never for an existing one.
C2_MixedKeysNonEmptyTable ==
    (/\ Finished
     /\ \E k \in Requested : Valid(k)
     /\ \E k \in Requested : Missing(k)
     /\ \A k \in Requested : ~Corrupt(k)) =>
        /\ pc = "returned"
        /\ result.rows # <<>>
        /\ \A x \in 1..Len(result.rows) :
              \E k \in Requested : Valid(k) /\ PathOf(k) = result.rows[x].src
        /\ \A k \in Requested :
              Cardinality({x \in 1..Len(warnings) : warnings[x] = k})
                 = IF Missing(k) THEN 1 ELSE 0

\* C3: once every requested key was attempted and no row was loaded,
\* combine_countries fails with the ValueError ("no valid country data"), and
\* it never returns a table without rows.
C3_ZeroRowsRaises ==
    /\ (Finished /\ pos = Len(country_keys) /\ Concat(frames) = <<>>) =>
          (Failed /\ result.exc = "ValueError")
    /\ pc = "returned" => result.rows # <<>>

\* C4: a missing file never keeps the other keys from being loaded, while an
\* error of the parser for any requested key ends the call with that error
\* whatever the other keys are: no table is returned, and the call site
\* reports the error.
C4_ErrorIsolationAsymmetry ==
    /\ (Finished /\ \E k \in Requested : Corrupt(k)) =>
          /\ Failed
          /\ result.exc = "ParseError"
          /\ result.rows = NoRows
          /\ pc = "stopped" => errors = <<"ParseError">>
    /\ (Finished /\ (\A k \in Requested : ~Corrupt(k))
                 /\ \E k \in Requested : Valid(k)) =>
          /\ pc = "returned"
          /\ \A k \in Requested : \A j \in 1..FileRows(k) :
                Valid(k) =>
                   \E x \in 1..Len(result.rows) :
                      /\ result.rows[x].src = PathOf(k)
                      /\ result.rows[x].line = j

\* a parse error after a loaded key and a missing key, reported at the call site
C4_Witness ==
    /\ pc = "stopped"
    /\ result.exc = "ParseError"
    /\ Len(country_keys) = 3
    /\ Valid(country_keys[1]) /\ FileRows(country_keys[1]) > 0
    /\ Missing(country_keys[2])
    /\ Corrupt(country_keys[3])

\* C5 as stated: every row of a returned table has a non-null 'country' that
\* is one of the requested keys, whether or not the file had the column.
C5_CountryIsRequestedKey ==
    pc = "returned" =>
        \A x \in 1..Len(result.rows) :
            /\ result.rows[x].country # Null
            /\ \E k \in Requested : result.rows[x].country = Some(k)

\* C5 as amended: in a returned table, a row of a file without a 'country'
\* column has the requested key of that file as its 'country' (never null); a
\* row of a file with its own 'country' column keeps the file's cell.
C5_CountryStampedOrKept ==
    pc = "returned" =>
        \A x \in 1..Len(result.rows) :
            LET r == result.rows[x]
            IN  /\ FromRequested(r)
                /\ IF files[r.src].hasCountry
                   THEN r.country = files[r.src].country[r.line]
                   ELSE /\ r.country # Null
                        /\ r.country = Some(country_keys[KeyPos(r.src)])

C5_Witness ==
    /\ pc = "returned"
    /\ \E x, y \in 1..Len(result.rows) :
          /\ files[result.rows[x].src].hasCountry
          /\ result.rows[x].country = Some(S_B)
          /\ ~files[result.rows[y].src].hasCountry

-----------------------------------------------------------------------------
(* Properties of list_available_countries *)

Matching == {n \in DOMAIN files : GlobMatches(n)}

\* C6: list_available_countries returns the keys of the matching files in
\* lexicographic order of the keys (also when one key is a prefix of another),
\* and the empty list when the storage directory cannot be scanned.
C6_KeysInLexicographicOrder ==
    pc = "listed" =>
        /\ dirState # "ok" => available = <<>>
        /\ dirState = "ok" => Len(available) = Cardinality(Matching)
        /\ \A x, y \in 1..Len(available) :
              x < y => StrLeq(available[x], available[y])

\* C7: every matching file's listed key is resolved by load_country_df to that
\* same file, so that loading a listed key never raises FileNotFoundError and
\* two matching files never have the same key.
C7_CatalogAndLoaderAgree ==
    /\ pc = "listed" =>
          /\ \A n \in Matching :
                \E x \in 1..Len(available) : PathOf(available[x]) = n
          /\ \A x, y \in 1..Len(available) :
                available[x] = available[y] => x = y
    /\ pc = "loaded" => result.exc # "FileNotFoundError"

-----------------------------------------------------------------------------
(* Properties of the sampling step of fig_boxplot *)

IsRowOf(r, df) == \E x \in 1..Len(df.rows) : df.rows[x] = r

DistinctRows(rows) ==
    \A x, y \in 1..Len(rows) : rows[x].index = rows[y].index => x = y

Reproducible ==
    \A c, d \in 1..Len(plotted) : plotted[c] = plotted[d]

\* C8 as stated: with sample_n >= the table's size df_plot is the table
\* unchanged; with sample_n < the table's size df_plot has exactly sample_n
\* rows, each a different row of the table; two calls with the same table and
\* sample_n use the same rows.
C8_SampleForEverySampleN ==
    /\ \A c \in 1..Len(plotted) :
          IF sample_n >= Len(df_all.rows)
          THEN plotted[c] = [exc |-> "none", rows |-> df_all.rows]
          ELSE /\ plotted[c].exc = "none"
               /\ Len(plotted[c].rows) = sample_n
               /\ \A x \in 1..Len(plotted[c].rows) :
                     IsRowOf(plotted[c].rows[x], df_all)
               /\ DistinctRows(plotted[c].rows)
    /\ Reproducible

\* C8 as amended: the statement holds for every sample_n >= 1; with
\* sample_n = 0 df_plot is the whole table whatever its size.
C8_SampleForPositiveSampleN ==
    /\ \A c \in 1..Len(plotted) :
          IF sample_n >= Len(df_all.rows) \/ sample_n = 0
          THEN plotted[c] = [exc |-> "none", rows |-> df_all.rows]
          ELSE /\ plotted[c].exc = "none"
               /\ Len(plotted[c].rows) = sample_n
               /\ \A x \in 1..Len(plotted[c].rows) :
                     IsRowOf(plotted[c].rows[x], df_all)
               /\ DistinctRows(plotted[c].rows)
    /\ Reproducible

\* two calls that sampled two of three rows, not the first two in table order
C8_Witness ==
    /\ Len(plotted) = 2
    /\ sample_n = 2
    /\ Len(df_all.rows) = 3
    /\ plotted[2].rows # SubSeq(df_all.rows, 1, 2)
    /\ rng["seed1"] # rng["global0"]
    /\ rng["global0"] # rng["global1"]

-----------------------------------------------------------------------------
(* Properties of top_regions_table *)

CommentsValues ==
    {df_all.rows[x].Comments : x \in 1..Len(df_all.rows)} \ {Null}
CountryValues ==
    {df_all.rows[x].country : x \in 1..Len(df_all.rows)} \ {Null}

\* C9: top_regions_table groups by Comments exactly when the table has the
\* Comments column and some row's Comments is not null, and by country
\* otherwise; every returned group key is a value of the chosen column.
C9_GroupingDimension ==
    pc = "table" =>
        /\ group_col = "Comments" <=>
              ("Comments" \in df_all.columns /\ CommentsValues # {})
        /\ group_col # "Comments" => group_col = "country"
        /\ \A x \in 1..Len(result.rows) :
              result.rows[x].key \in
                 IF group_col = "Comments" THEN CommentsValues
                 ELSE CountryValues

\* the Comments column is there and null in every row, and two regions are
\* ranked
C9_Witness ==
    /\ pc = "table"
    /\ "Comments" \in df_all.columns
    /\ CommentsValues = {}
    /\ group_col = "country"
    /\ Len(result.rows) = 2

\* the groups of the chosen column and their means, from the table itself
GroupsOfChosen == IF group_col = "Comments" THEN CommentsValues ELSE CountryValues
CellOf(r) == IF group_col = "Comments" THEN r.Comments ELSE r.country
MetricRows(k) ==
    {x \in 1..Len(df_all.rows) :
        CellOf(df_all.rows[x]) = k /\ df_all.rows[x].GHI # NaN}
RECURSIVE Total(_)
Total(X) ==
    IF X = {} THEN 0
    ELSE LET x == CHOOSE x \in X : TRUE
         IN  df_all.rows[x].GHI[1] + Total(X \ {x})

\* mean of group k > mean of group j (neither NaN)
GroupMeanGreater(k, j) ==
    /\ MetricRows(k) # {}
    /\ MetricRows(j) # {}
    /\ Total(MetricRows(k)) * Cardinality(MetricRows(j))
          > Total(MetricRows(j)) * Cardinality(MetricRows(k))

\* C10: for top_n > 0, top_regions_table returns min(top_n, G) rows, G the
\* number of groups of the chosen column; no returned row has a greater mean
\* than a row before it, and no group left out has a greater mean than a
\* returned one.
C10_TopRowsByMean ==
    (pc = "table" /\ top_n > 0) =>
        LET G == Cardinality(GroupsOfChosen)
            returned == {result.rows[x].key : x \in 1..Len(result.rows)}
        IN  /\ Len(result.rows) = IF top_n < G THEN top_n ELSE G
            /\ Cardinality(returned) = Len(result.rows)
            /\ returned \subseteq GroupsOfChosen
            /\ \A x, y \in 1..Len(result.rows) :
                  x < y =>
                     ~GroupMeanGreater(result.rows[y].key, result.rows[x].key)
            /\ \A k \in GroupsOfChosen \ returned : \A j \in returned :
                  ~GroupMeanGreater(k, j)

\* one of two groups of different means returned
C10_Witness ==
    /\ pc = "table"
    /\ top_n = 1
    /\ Cardinality(GroupsOfChosen) = 2
    /\ Len(result.rows) = 1
    /\ \A k, j \in GroupsOfChosen :
          k # j => GroupMeanGreater(k, j) \/ GroupMeanGreater(j, k)

====
